---------------------------- MODULE Spec2Model ----------------------------
(***************************************************************************)
(* A model of the Hash Array Mapped Trie of hamt.ffi.mjs: the heap of      *)
(* nodes and arrays the module allocates, the Dict records it returns, and *)
(* the operations set, remove and get (with the test helper from_list and  *)
(* the benchmark helper create_hamt, which fold set over a list).          *)
(* Two smaller specifications follow the merge of two leaves call by call  *)
(* (SpecMerge, for keys hashed by their own hashCode method) and the calls *)
(* of hashByReference (SpecReferences).                                    *)
(*                                                                         *)
(* JavaScript values:                                                      *)
(*   - a 32-bit integer is the signed integer ToInt32 gives                *)
(*     (-2^31 .. 2^31 - 1); the bit operators below work on its two's      *)
(*     complement bits and wrap as the JavaScript operators do;            *)
(*   - a key is [t |-> "string", s |-> <<code units>>] or                  *)
(*     [t |-> "number", n |-> integer];                                    *)
(*   - an object reference is an address into heap (1 .. Len(heap));       *)
(*     the null of EMPTY_NODE is 0 and undefined is UNDEFINED.             *)
(***************************************************************************)
EXTENDS Integers, Sequences, FiniteSets, TLC

VARIABLES
    heap,    \* the objects allocated so far: nodes and arrays, by address
    dicts,   \* the Dict records ({root, size}) returned so far, by identity
    last,    \* the last operation: its arguments and what it returned, and
             \* the position of the fold of a helper that is under way
    referenceMap,  \* the WeakMap of hashByReference: the hash of each
                   \* reference, undefined for one it has not met
    referenceUid   \* the counter of hashByReference

vars == <<heap, dicts, last, referenceMap, referenceUid>>

\* the state of hashByReference, which the operations on maps of string and
\* number keys never touch
references == <<referenceMap, referenceUid>>

\* const name = val; Op(name): the value is computed first (the tuple takes
\* the value of val), once, and then used
Let(val, Op(_)) == IF Len(<<val>>) = 1 THEN Op(val) ELSE Op(val)

---------------------------------------------------------------------------
(* 32-bit integers *)

MinInt32 == -2147483647 - 1

\* 2^n for n in 0..30
Pow2(n) == 2 ^ n

\* a signed 32-bit integer is its sign bit (bit 31) and its low 31 bits
Low31(a) == IF a < 0 THEN a - MinInt32 ELSE a
WithSign(low, negative) == IF negative THEN low + MinInt32 ELSE low

\* bit i of a natural below 2^31
Bit(a, i) == (a \div Pow2(i)) % 2

\* the bitwise operators on naturals below 2^31: bit i of the result, at its
\* place, for each i in 0..30
AndBit(a, b, i) == IF Bit(a, i) + Bit(b, i) = 2 THEN Pow2(i) ELSE 0
OrBit(a, b, i) == IF Bit(a, i) + Bit(b, i) > 0 THEN Pow2(i) ELSE 0
XorBit(a, b, i) == IF Bit(a, i) + Bit(b, i) = 1 THEN Pow2(i) ELSE 0

\* the bits i..i+3 of the result: all 0 when the operands end below bit i
And4(a, b, i) ==
    IF a < Pow2(i) \/ b < Pow2(i) THEN 0
    ELSE (AndBit(a, b, i) + AndBit(a, b, i + 1))
         + (AndBit(a, b, i + 2) + AndBit(a, b, i + 3))
Or4(a, b, i) ==
    IF a < Pow2(i) /\ b < Pow2(i) THEN 0
    ELSE (OrBit(a, b, i) + OrBit(a, b, i + 1))
         + (OrBit(a, b, i + 2) + OrBit(a, b, i + 3))
Xor4(a, b, i) ==
    IF a < Pow2(i) /\ b < Pow2(i) THEN 0
    ELSE (XorBit(a, b, i) + XorBit(a, b, i + 1))
         + (XorBit(a, b, i + 2) + XorBit(a, b, i + 3))

AndNat(a, b) ==
    IF a = 0 \/ b = 0 THEN 0
    ELSE ((And4(a, b, 0) + And4(a, b, 4)) + (And4(a, b, 8) + And4(a, b, 12)))
         + ((And4(a, b, 16) + And4(a, b, 20))
            + (And4(a, b, 24) + ((AndBit(a, b, 28) + AndBit(a, b, 29))
                                 + AndBit(a, b, 30))))

OrNat(a, b) ==
    IF a = 0 THEN b ELSE IF b = 0 THEN a
    ELSE ((Or4(a, b, 0) + Or4(a, b, 4)) + (Or4(a, b, 8) + Or4(a, b, 12)))
         + ((Or4(a, b, 16) + Or4(a, b, 20))
            + (Or4(a, b, 24) + ((OrBit(a, b, 28) + OrBit(a, b, 29))
                                + OrBit(a, b, 30))))

XorNat(a, b) ==
    IF a = 0 THEN b ELSE IF b = 0 THEN a
    ELSE ((Xor4(a, b, 0) + Xor4(a, b, 4)) + (Xor4(a, b, 8) + Xor4(a, b, 12)))
         + ((Xor4(a, b, 16) + Xor4(a, b, 20))
            + (Xor4(a, b, 24) + ((XorBit(a, b, 28) + XorBit(a, b, 29))
                                 + XorBit(a, b, 30))))

\* a & b
And(a, b) == WithSign(AndNat(Low31(a), Low31(b)), a < 0 /\ b < 0)

\* a | b
Or(a, b) == WithSign(OrNat(Low31(a), Low31(b)), a < 0 \/ b < 0)

\* a ^ b
Xor(a, b) == WithSign(XorNat(Low31(a), Low31(b)), (a < 0) # (b < 0))

\* a << n: the shift count is taken modulo 32; bit 31 - n becomes the sign
Shl(a, n) ==
    LET k == n % 32
    IN  IF k = 0 THEN a
        ELSE IF k = 31 THEN WithSign(0, a % 2 = 1)
        ELSE WithSign((Low31(a) % Pow2(31 - k)) * Pow2(k),
                      (Low31(a) \div Pow2(31 - k)) % 2 = 1)

\* a >> n (sign-propagating): the shift count is taken modulo 32
Sar(a, n) ==
    LET k == n % 32
    IN  IF k = 31 THEN (IF a < 0 THEN -1 ELSE 0) ELSE a \div Pow2(k)

\* a >>> n for a count that is not a multiple of 32 (the result is below
\* 2^31): the sign bit moves to bit 31 - n
Shr(a, n) ==
    LET k == n % 32
    IN  IF k = 31 THEN (IF a < 0 THEN 1 ELSE 0)
        ELSE (Low31(a) \div Pow2(k)) + (IF a < 0 THEN Pow2(31 - k) ELSE 0)

\* the low and high 16 bits of a, and the 32-bit integer with these halves
Lo16(a) == a % 65536
Hi16(a) == a \div 65536
FromHalves(hi, lo) == (((hi + 32768) % 65536) - 32768) * 65536 + lo

\* ToInt32(a + b) and ToInt32(a - b)
Add32(a, b) ==
    FromHalves(Hi16(a) + Hi16(b) + ((Lo16(a) + Lo16(b)) \div 65536),
               (Lo16(a) + Lo16(b)) % 65536)

Sub32(a, b) ==
    FromHalves(Hi16(a) - Hi16(b) + ((Lo16(a) - Lo16(b)) \div 65536),
               (Lo16(a) - Lo16(b)) % 65536)

\* byte i (0..3) of a
Byte(a, i) ==
    IF i = 0 THEN Lo16(a) % 256
    ELSE IF i = 1 THEN Lo16(a) \div 256
    ELSE IF i = 2 THEN (Hi16(a) % 65536) % 256
    ELSE (Hi16(a) % 65536) \div 256

\* Math.imul(a, b): the low 32 bits of the product, signed
Imul(a, b) ==
    LET c0 == Byte(a, 0) * Byte(b, 0)
        c1 == Byte(a, 0) * Byte(b, 1) + Byte(a, 1) * Byte(b, 0) + (c0 \div 256)
        c2 == Byte(a, 0) * Byte(b, 2) + Byte(a, 1) * Byte(b, 1)
              + Byte(a, 2) * Byte(b, 0) + (c1 \div 256)
        c3 == Byte(a, 0) * Byte(b, 3) + Byte(a, 1) * Byte(b, 2)
              + Byte(a, 2) * Byte(b, 1) + Byte(a, 3) * Byte(b, 0) + (c2 \div 256)
    IN  FromHalves((c3 % 256) * 256 + (c2 % 256), (c1 % 256) * 256 + (c0 % 256))

---------------------------------------------------------------------------
(* JavaScript values *)

\* undefined: a hole of `new Array(32)`, a slot set to undefined, and the
\* `type` property of a leaf node, which has none
UNDEFINED == -1

\* keys: strings (their UTF-16 code units) and numbers (integers)
Str(s) == [t |-> "string", s |-> s]
Num(n) == [t |-> "number", n |-> n]

\* isEqual of gleam.mjs on strings and numbers: equality of the values
isEqual(a, b) == a = b

\* a JavaScript array, a heap object of its own; element i is elems[i + 1]
JsArray(elems) == [elems |-> elems]

\* the object literal { key, value }: a plain object, which is not iterable
PairObject(key, value) == [iterable |-> FALSE, key |-> key, value |-> value]

\* allocation of a fresh object: the address after the last one
Alloc(h, obj) == [h |-> Append(h, obj), r |-> Len(h) + 1]

---------------------------------------------------------------------------
(* TYPE DEFINITIONS *)

COLLISION == 2
PACKED == 3
ARRAY == 4
EMPTY_NODE == 0

(* BUILDERS: each returns the heap with the new node and the node's address *)

leafNode(h, hash, key, value) ==
    Alloc(h, [type |-> UNDEFINED, hash |-> hash, key |-> key, value |-> value])

collisionNode(h, hash, pairs) ==
    Alloc(h, [type |-> COLLISION, hash |-> hash, pairs |-> pairs])

packedNode(h, bitmap, children) ==
    Alloc(h, [type |-> PACKED, bitmap |-> bitmap, children |-> children])

arrayNode(h, size, children) ==
    Alloc(h, [type |-> ARRAY, size |-> size, children |-> children])

---------------------------------------------------------------------------
(* BIT OPERATIONS *)

FRAGMENT_SIZE == 5

BUCKET_SIZE == 2 ^ FRAGMENT_SIZE

MASK == BUCKET_SIZE - 1

MAX_CHILDREN_IN_PACKED_NODE == BUCKET_SIZE \div 2

\* the SWAR population count, step by step
popCount(bitmap) ==
    Let(Sub32(bitmap, And(Sar(bitmap, 1), 1431655765)), LAMBDA b1 :
    Let(Add32(And(b1, 858993459), And(Sar(b1, 2), 858993459)), LAMBDA b2 :
    Let(And(Add32(b2, Sar(b2, 4)), 252645135), LAMBDA b3 :
    Let(Add32(b3, Sar(b3, 8)), LAMBDA b4 :
    Let(Add32(b4, Sar(b4, 16)), LAMBDA b5 :
        And(b5, 127))))))

\* (hash >>> shift) & MASK. A shift count is taken modulo 32; with a count
\* of 0, hash >>> 0 has the bits of hash, and MASK keeps the low ones.
hashFragment(shift, hash) ==
    IF shift % 32 = 0 THEN And(hash, MASK) ELSE And(Shr(hash, shift), MASK)

toMask(fragment) == Shl(1, fragment)

---------------------------------------------------------------------------
(* HASHING *)

\* the exponent of the greatest power of 2 that is at most a (a in 1..2^31-1)
Log2(a) == CHOOSE e \in 0..30 : a \div Pow2(e) = 1

\* tempDataView.setFloat64(0, number) for an integer number, read back as
\* the two big-endian words getInt32(0) and getInt32(4): sign, biased
\* exponent (1023 + e) and the 52 fraction bits of |number| = 2^e * 1.f
float64Words(number) ==
    IF number = 0 THEN [i |-> 0, j |-> 0]
    ELSE LET a == IF number < 0 THEN 0 - number ELSE number
             e == Log2(a)
             f == a - Pow2(e)
             top == IF e <= 20 THEN f * Pow2(20 - e) ELSE f \div Pow2(e - 20)
             low == IF e <= 20 THEN 0 ELSE Shl(f % Pow2(e - 20), 52 - e)
             hi == (1023 + e) * Pow2(20) + top
         IN  [i |-> IF number < 0 THEN hi + MinInt32 ELSE hi, j |-> low]

hashNumber(number) ==
    LET w == float64Words(number)
    IN  Xor(Imul(73244475, Xor(Sar(w.i, 16), w.i)), w.j)

RECURSIVE hashStringLoop(_, _, _)
hashStringLoop(string, i, hash) ==
    IF i > Len(string) THEN hash
    ELSE hashStringLoop(string, i + 1, Add32(Imul(31, hash), string[i]))

hashString(string) == hashStringLoop(string, 1, 0)

\* typeof value is "number" or "string" for the keys of this model
getHash(value) ==
    IF value.t = "number" THEN hashNumber(value.n) ELSE hashString(value.s)

---------------------------------------------------------------------------
(* INTERNAL IMPLEMENTATION *)

\* null, as the argument and the result of an alterValue callback
NO_VALUE == <<>>
REMOVE == <<>>
\* null, as the first element of [VALUE, v] and of [INSERT, v]
VALUE == 0
INSERT == 0

\* the callback of set: counts a new key, and always inserts
setAlterValue(value, arg) ==
    [op |-> <<INSERT, value>>, delta |-> IF arg = NO_VALUE THEN 1 ELSE 0]

\* a callback that decrements new_size whatever its argument is
removeAlterValueAlways(arg) == [op |-> REMOVE, delta |-> -1]

\* the callback of remove: counts a removed key, and always removes
removeAlterValue(arg) ==
    [op |-> REMOVE, delta |-> IF arg # NO_VALUE THEN -1 ELSE 0]

\* a call of the callback f: what it returns (op) and what it adds to the
\* new_size its closure holds (delta)
alterValue(f, arg) ==
    IF f.kind = "set" THEN setAlterValue(f.value, arg) ELSE removeAlterValue(arg)

\* what a call of alter gives: the heap after it, the node it returns (r), the
\* change of new_size its callback made (delta), and the exception it threw
Returned(h, r, delta) == [h |-> h, r |-> r, delta |-> delta, exc |-> "none"]
Thrown(h, exc) == [h |-> h, r |-> EMPTY_NODE, delta |-> 0, exc |-> exc]

\* array[index] = value on the array itself, with no copy
cloneAndSetInPlace(h, array, index, value) ==
    [h |-> [h EXCEPT ![array] = JsArray([h[array].elems EXCEPT ![index + 1] = value])],
     r |-> array]

cloneAndSet(h, array, index, value) ==
    Alloc(h, JsArray([h[array].elems EXCEPT ![index + 1] = value]))

\* a copy of the array with value put first, whatever index is
cloneAndInsertAtStart(h, array, index, value) ==
    Alloc(h, JsArray(<<value>> \o h[array].elems))

cloneAndInsert(h, array, index, value) ==
    Alloc(h, JsArray(SubSeq(h[array].elems, 1, index) \o <<value>>
                     \o SubSeq(h[array].elems, index + 1, Len(h[array].elems))))

\* array.toSpliced(index, 1)
toSpliced(h, array, index) ==
    Alloc(h, JsArray(SubSeq(h[array].elems, 1, index)
                     \o SubSeq(h[array].elems, index + 2, Len(h[array].elems))))

\* packedNode(bitmap, [...]): the array literal, then the node
packedNodeOf(h, bitmap, elems) ==
    Let(Alloc(h, JsArray(elems)), LAMBDA children :
        packedNode(children.h, bitmap, children.r))

RECURSIVE mergeLeavesLoop(_, _, _, _, _, _)

\* the body of mergeLeavesLoop, once fragment and otherFragment are known
mergeFragments(h, shift, hash, node, otherHash, otherNode, fragment, otherFragment) ==
    IF fragment = otherFragment
    THEN Let(mergeLeavesLoop(h, shift + FRAGMENT_SIZE, hash, node,
                             otherHash, otherNode),
             LAMBDA child :
                 packedNodeOf(child.h, Or(toMask(fragment), toMask(otherFragment)),
                              <<child.r>>))
    ELSE IF fragment < otherFragment
    THEN packedNodeOf(h, Or(toMask(fragment), toMask(otherFragment)),
                      <<node, otherNode>>)
    ELSE packedNodeOf(h, Or(toMask(fragment), toMask(otherFragment)),
                      <<otherNode, node>>)

mergeLeavesLoop(h, shift, hash, node, otherHash, otherNode) ==
    mergeFragments(h, shift, hash, node, otherHash, otherNode,
                   hashFragment(shift, hash), hashFragment(shift, otherHash))

\* collisionNode(hash, [...]): the array literal, then the node
collisionNodeOf(h, hash, elems) ==
    Let(Alloc(h, JsArray(elems)), LAMBDA pairs :
        collisionNode(pairs.h, hash, pairs.r))

mergeLeaves(h, shift, hash, node, otherHash, other) ==
    IF hash = otherHash
    THEN IF h[node].type = COLLISION /\ h[other].type = COLLISION
         THEN collisionNodeOf(h, hash,
                  h[h[node].pairs].elems \o h[h[other].pairs].elems)
         ELSE IF h[other].type = COLLISION
         THEN collisionNodeOf(h, hash,
                  h[h[other].pairs].elems
                  \o <<PairObject(h[node].key, h[node].value)>>)
         ELSE IF h[node].type = COLLISION
         THEN collisionNodeOf(h, hash,
                  h[h[node].pairs].elems
                  \o <<PairObject(h[other].key, h[other].value)>>)
         ELSE collisionNodeOf(h, hash,
                  <<PairObject(h[other].key, h[other].value),
                    PairObject(h[node].key, h[node].value)>>)
    ELSE mergeLeavesLoop(h, shift, hash, node, otherHash, other)

\* what a call of alter gives when it returns what `made` made (its heap and
\* its node), after a callback that changed new_size by delta
ReturnedNew(made, delta) == Returned(made.h, made.r, delta)

\* mergeLeaves(shift, node.hash, node, keyHash, leafNode(keyHash, key, value))
mergeWithNewLeaf(h, shift, node, keyHash, key, value) ==
    Let(leafNode(h, keyHash, key, value), LAMBDA leaf :
        mergeLeaves(leaf.h, shift, h[node].hash, node, keyHash, leaf.r))

\* the branch every terminal node shares: the key is not here, so the
\* callback is called with NO_VALUE, and an insert merges a new leaf with node
alterMissing(h, shift, node, keyHash, key, f) ==
    Let(alterValue(f, NO_VALUE), LAMBDA c :
        IF c.op = REMOVE THEN Returned(h, node, c.delta)
        ELSE ReturnedNew(mergeWithNewLeaf(h, shift, node, keyHash, key, c.op[2]),
                         c.delta))

alterLeafNode(h, shift, node, keyHash, key, f) ==
    IF isEqual(key, h[node].key)
    THEN Let(alterValue(f, <<VALUE, h[node].value>>), LAMBDA c :
             IF c.op = REMOVE THEN Returned(h, EMPTY_NODE, c.delta)
             ELSE ReturnedNew(leafNode(h, h[node].hash, h[node].key, c.op[2]),
                              c.delta))
    ELSE alterMissing(h, shift, node, keyHash, key, f)

\* const [a, b] = pair: a TypeError when pair is not iterable
Destructure(pair) ==
    IF pair.iterable
    THEN [exc |-> "none", first |-> pair.key, second |-> pair.value]
    ELSE [exc |-> "TypeError", first |-> UNDEFINED, second |-> UNDEFINED]

\* pair[i]: undefined on a plain object
PairAt(pair, i) ==
    IF pair.iterable THEN (IF i = 0 THEN pair.key ELSE pair.value) ELSE UNDEFINED

\* the scan of the pairs for key, from index i: the [VALUE, v] found and its
\* index, or NO_VALUE (and a null index), or the exception the destructuring
\* threw
RECURSIVE scanPairs(_, _, _)
scanPairs(pairs, key, i) ==
    IF i >= Len(pairs)
    THEN [exc |-> "none", value |-> NO_VALUE, valueIndex |-> UNDEFINED]
    ELSE Let(Destructure(pairs[i + 1]), LAMBDA d :
             IF d.exc # "none"
             THEN [exc |-> d.exc, value |-> NO_VALUE, valueIndex |-> UNDEFINED]
             ELSE IF isEqual(key, d.first)
             THEN [exc |-> "none", value |-> <<VALUE, d.second>>, valueIndex |-> i]
             ELSE scanPairs(pairs, key, i + 1))

\* the REMOVE branch of a key found at valueIndex
removePair(h, node, valueIndex, delta) ==
    Let(toSpliced(h, h[node].pairs, valueIndex), LAMBDA newPairs :
        IF Len(newPairs.h[newPairs.r].elems) = 1
        THEN ReturnedNew(leafNode(newPairs.h, h[node].hash,
                                  PairAt(newPairs.h[newPairs.r].elems[1], 0),
                                  PairAt(newPairs.h[newPairs.r].elems[1], 1)),
                         delta)
        ELSE ReturnedNew(collisionNode(newPairs.h, h[node].hash, newPairs.r), delta))

\* the INSERT branch of a key found at valueIndex
replacePair(h, node, valueIndex, key, value, delta) ==
    Let(cloneAndSet(h, h[node].pairs, valueIndex, PairObject(key, value)),
        LAMBDA pairs :
            ReturnedNew(collisionNode(pairs.h, h[node].hash, pairs.r), delta))

alterCollisionNode(h, shift, node, keyHash, key, f) ==
    IF keyHash # h[node].hash
    THEN alterMissing(h, shift, node, keyHash, key, f)
    ELSE Let(scanPairs(h[h[node].pairs].elems, key, 0), LAMBDA s :
             IF s.exc # "none" THEN Thrown(h, s.exc)
             ELSE IF s.value = NO_VALUE
             THEN alterMissing(h, shift, node, keyHash, key, f)
             ELSE Let(alterValue(f, s.value), LAMBDA c :
                      IF c.op = REMOVE
                      THEN removePair(h, node, s.valueIndex, c.delta)
                      ELSE replacePair(h, node, s.valueIndex, key, c.op[2], c.delta)))

\* bitmap & 1 at iteration i of the loop below, after i times
\* bitmap = bitmap >>> 1
promoteBit(bitmap, i) ==
    IF i = 0 THEN And(bitmap, 1) ELSE And(Shr(bitmap, i), 1)

\* the loop without its j++: every set bit takes children[0]
promoteLoopNoAdvance(slots, children, bitmap) ==
    [i \in 1..32 |-> IF promoteBit(bitmap, i - 1) # 0 THEN children[1] ELSE slots[i]]

\* the loop that copies the children of a packed node into the 32 slots of
\* the new array: slot i takes children[j] when bit i of the bitmap is set,
\* where j counts the bits the loop found set before i (j++), and keeps what
\* it held when the bit is not set
promoteLoop(slots, children, bitmap) ==
    [i \in 1..32 |->
        IF promoteBit(bitmap, i - 1) # 0
        THEN children[Cardinality({k \in 0..(i - 2) : promoteBit(bitmap, k) # 0}) + 1]
        ELSE slots[i]]

\* the packed node turned into an array node: new Array(32), the new leaf at
\* its fragment, the children copied, and size = children.length + 1
promote(h, node, fragment, keyHash, key, value) ==
    Let(leafNode(h, keyHash, key, value), LAMBDA leaf :
    Let(Alloc(leaf.h, JsArray(promoteLoop(
                [i \in 1..32 |-> IF i = fragment + 1 THEN leaf.r ELSE UNDEFINED],
                h[h[node].children].elems, h[node].bitmap))),
        LAMBDA children :
            arrayNode(children.h, Len(h[h[node].children].elems) + 1, children.r)))

\* the packed node with a new leaf inserted at childIndex
insertChild(h, node, mask, childIndex, keyHash, key, value) ==
    Let(leafNode(h, keyHash, key, value), LAMBDA newChild :
    Let(cloneAndInsert(newChild.h, h[node].children, childIndex, newChild.r),
        LAMBDA newChildren :
            packedNode(newChildren.h, Or(h[node].bitmap, mask), newChildren.r)))

\* the packed node after its child at childIndex was altered into a
\* (a.h: the heap, a.r: the new child)
packedWithChild(h, node, mask, childIndex, child, a) ==
    IF a.exc # "none" THEN a
    ELSE IF a.r = EMPTY_NODE
    THEN IF h[node].bitmap = mask
         THEN Returned(a.h, EMPTY_NODE, a.delta)
         ELSE Let(toSpliced(a.h, h[node].children, childIndex), LAMBDA children :
                  ReturnedNew(packedNode(children.h, Xor(h[node].bitmap, mask),
                                         children.r), a.delta))
    ELSE IF a.r = child
    THEN Returned(a.h, node, a.delta)
    ELSE Let(cloneAndSet(a.h, h[node].children, childIndex, a.r), LAMBDA children :
             ReturnedNew(packedNode(children.h, h[node].bitmap, children.r), a.delta))

\* the array node with slot childIndex set to value and the given size
arrayWithSlot(h, node, childIndex, value, size, delta) ==
    Let(cloneAndSet(h, h[node].children, childIndex, value), LAMBDA newChildren :
        ReturnedNew(arrayNode(newChildren.h, size, newChildren.r), delta))

\* the array node after its child at childIndex was altered into a
arrayWithChild(h, node, childIndex, child, a) ==
    IF a.exc # "none" THEN a
    ELSE IF a.r = child THEN Returned(a.h, node, a.delta)
    ELSE IF a.r = EMPTY_NODE
    THEN IF h[node].size = 1
         THEN Returned(a.h, EMPTY_NODE, a.delta)
         ELSE arrayWithSlot(a.h, node, childIndex, UNDEFINED, h[node].size, a.delta)
    ELSE arrayWithSlot(a.h, node, childIndex, a.r, h[node].size, a.delta)

RECURSIVE alter(_, _, _, _, _, _)

\* the body of alterPackedNode, once fragment, mask and childIndex are known
alterPackedChild(h, shift, node, keyHash, key, f, fragment, mask, childIndex) ==
    IF And(h[node].bitmap, mask) # 0
    THEN packedWithChild(h, node, mask, childIndex,
             h[h[node].children].elems[childIndex + 1],
             alter(h, shift + FRAGMENT_SIZE,
                   h[h[node].children].elems[childIndex + 1], key, keyHash, f))
    ELSE Let(alterValue(f, NO_VALUE), LAMBDA c :
             IF c.op = REMOVE THEN Returned(h, node, c.delta)
             ELSE IF Len(h[h[node].children].elems) >= MAX_CHILDREN_IN_PACKED_NODE
             THEN ReturnedNew(promote(h, node, fragment, keyHash, key, c.op[2]),
                              c.delta)
             ELSE ReturnedNew(insertChild(h, node, mask, childIndex, keyHash, key,
                                          c.op[2]), c.delta))

\* fragment = hashFragment(shift, keyHash), mask = toMask(fragment) and
\* childIndex = popCount(node.bitmap & (mask - 1))
alterPackedNode(h, shift, node, keyHash, key, f) ==
    alterPackedChild(h, shift, node, keyHash, key, f,
        hashFragment(shift, keyHash),
        toMask(hashFragment(shift, keyHash)),
        popCount(And(h[node].bitmap,
                     Sub32(toMask(hashFragment(shift, keyHash)), 1))))

\* the body of alterArrayNode, once childIndex and child are known
alterArrayChild(h, shift, node, keyHash, key, f, childIndex, child) ==
    IF child = UNDEFINED
    THEN Let(alterValue(f, NO_VALUE), LAMBDA c :
             IF c.op = REMOVE THEN Returned(h, node, c.delta)
             ELSE Let(leafNode(h, keyHash, key, c.op[2]), LAMBDA newChild :
                      arrayWithSlot(newChild.h, node, childIndex, newChild.r,
                                    h[node].size + 1, c.delta)))
    ELSE arrayWithChild(h, node, childIndex, child,
             alter(h, shift + FRAGMENT_SIZE, child, key, keyHash, f))

\* childIndex = hashFragment(shift, keyHash), child = node.children[childIndex]
alterArrayNode(h, shift, node, keyHash, key, f) ==
    alterArrayChild(h, shift, node, keyHash, key, f,
        hashFragment(shift, keyHash),
        h[h[node].children].elems[hashFragment(shift, keyHash) + 1])

alter(h, shift, node, key, keyHash, f) ==
    IF node = EMPTY_NODE
    THEN Let(alterValue(f, NO_VALUE), LAMBDA c :
             IF c.op = REMOVE THEN Returned(h, EMPTY_NODE, c.delta)
             ELSE ReturnedNew(leafNode(h, keyHash, key, c.op[2]), c.delta))
    ELSE CASE h[node].type = COLLISION ->
                  alterCollisionNode(h, shift, node, keyHash, key, f)
           [] h[node].type = ARRAY ->
                  alterArrayNode(h, shift, node, keyHash, key, f)
           [] h[node].type = PACKED ->
                  alterPackedNode(h, shift, node, keyHash, key, f)
           [] OTHER -> alterLeafNode(h, shift, node, keyHash, key, f)

NOT_FOUND == <<>>

\* what find gives: <<v>> for { value: v }, NOT_FOUND, or the exception thrown
FindReturned(r) == [exc |-> "none", r |-> r]
FindThrown(exc) == [exc |-> exc, r |-> NOT_FOUND]

RECURSIVE findLoop(_, _, _, _, _)
findLoop(h, node, key, keyHash, shift) ==
    IF node = EMPTY_NODE THEN FindReturned(NOT_FOUND)
    ELSE IF h[node].type = ARRAY
    THEN Let(h[h[node].children].elems[hashFragment(shift, keyHash) + 1],
             LAMBDA next :
                 IF next = UNDEFINED \/ next = EMPTY_NODE
                 THEN FindReturned(NOT_FOUND)
                 ELSE IF h[next].type = UNDEFINED /\ isEqual(key, h[next].key)
                 THEN FindReturned(<<h[next].value>>)
                 ELSE findLoop(h, next, key, keyHash, shift + FRAGMENT_SIZE))
    ELSE IF h[node].type = PACKED
    THEN Let(Shl(1, hashFragment(shift, keyHash)), LAMBDA mask :
             IF And(h[node].bitmap, mask) = 0
             THEN FindReturned(NOT_FOUND)
             ELSE Let(h[h[node].children].elems[
                          popCount(And(h[node].bitmap, Sub32(mask, 1))) + 1],
                      LAMBDA next :
                          IF next = EMPTY_NODE
                          THEN FindReturned(NOT_FOUND)
                          ELSE IF h[next].type = UNDEFINED /\ isEqual(key, h[next].key)
                          THEN FindReturned(<<h[next].value>>)
                          ELSE findLoop(h, next, key, keyHash, shift + FRAGMENT_SIZE)))
    ELSE IF h[node].type = COLLISION
    THEN IF keyHash # h[node].hash
         THEN FindReturned(NOT_FOUND)
         ELSE Let(scanPairs(h[h[node].pairs].elems, key, 0), LAMBDA s :
                  IF s.exc # "none" THEN FindThrown(s.exc)
                  ELSE IF s.value # NO_VALUE THEN FindReturned(<<s.value[2]>>)
                  ELSE FindReturned(NOT_FOUND))
    ELSE IF isEqual(key, h[node].key)
    THEN FindReturned(<<h[node].value>>)
    ELSE FindReturned(NOT_FOUND)

find(h, node, key) == findLoop(h, node, key, getHash(key), 0)

---------------------------------------------------------------------------
(* PUBLIC DICT API *)
(* A Dict is a record of dicts; its identity is its index. Each operation   *)
(* takes the heap h and the records ds, and gives them back with what it    *)
(* allocated, the Dict it returns (ret) and the exception it threw (exc).   *)

NewDict(h, ds, root, size) ==
    [h |-> h, ds |-> Append(ds, [root |-> root, size |-> size]),
     ret |-> Len(ds) + 1, exc |-> "none"]

NoDict(h, ds, exc) == [h |-> h, ds |-> ds, ret |-> 0, exc |-> exc]

\* return { root: new_root, size: new_size }, unless alter threw
DictOf(ds, dict, a) ==
    IF a.exc # "none" THEN NoDict(a.h, ds, a.exc)
    ELSE NewDict(a.h, ds, a.r, ds[dict].size + a.delta)

empty(h, ds) == NewDict(h, ds, EMPTY_NODE, 0)

size(ds, dict) == ds[dict].size

set(h, ds, dict, key, value) ==
    DictOf(ds, dict, alter(h, 0, ds[dict].root, key, getHash(key),
                           [kind |-> "set", value |-> value]))

remove(h, ds, dict, key) ==
    DictOf(ds, dict, alter(h, 0, ds[dict].root, key, getHash(key),
                           [kind |-> "remove"]))

\* <<"Ok", v>> for new Ok(v), <<"Error">> for new Error(), <<"throw", e>>
\* when find threw e
get(h, ds, dict, key) ==
    Let(find(h, ds[dict].root, key), LAMBDA result :
        IF result.exc # "none" THEN <<"throw", result.exc>>
        ELSE IF result.r = NOT_FOUND THEN <<"Error">>
        ELSE <<"Ok", result.r[1]>>)

\* find(dict.root, key) !== NOT_FOUND, or <<"throw", e>> when find threw e
hasKey(h, ds, dict, key) ==
    Let(find(h, ds[dict].root, key), LAMBDA result :
        IF result.exc # "none" THEN <<"throw", result.exc>>
        ELSE result.r # NOT_FOUND)

---------------------------------------------------------------------------
(* Lists *)

\* list.range(start, stop), both ends included
Range(start, stop) == [i \in 1..(stop - start + 1) |-> start + i - 1]

---------------------------------------------------------------------------
(* The state machine: a program that holds every Dict it was returned and   *)
(* calls set, remove and get on them, and builds a Dict from a list as the  *)
(* tests do with from_list: by list.fold, which calls insert once for each  *)
(* item. The position of the fold is part of the state: the items taken    *)
(* (pos) and the accumulator, the Dict the last insert returned (acc).     *)
(* A get writes nothing: every heap and every Dict the program can reach,  *)
(* it reaches by its inserts and removes alone. So a behaviour is a run of  *)
(* inserts and removes, and then one get, on any Dict and any key.          *)

\* the number of Dict records a behaviour may hold
MaxDicts == 3

\* the opaque values the program holds, and the table with none of them
MaxRefs == 4
Refs == 1..MaxRefs
NoReferences == [object \in Refs |-> UNDEFINED]

\* "a" and "A" have hashes 97 and 65, which share the fragment at shift 0 (1)
\* and differ at shift 5; "Aa", "BB" and "C#" all have hash 2112 (fragment 0)
Keys == {Str(<<97>>), Str(<<65>>), Str(<<65, 97>>), Str(<<66, 66>>), Str(<<67, 35>>)}

Values == {1, 2}

\* [#("A", 1), #("B", 2), ...]: n one-letter keys, of hashes 65, 66, ...,
\* whose fragments at shift 0 are 1, 2, ...
LetterList(n) == [i \in 1..n |-> <<Str(<<64 + i>>), i>>]

\* 16 keys fill a packed root, the 17th promotes it to an array node
ListSizes == {16, 17}

\* [#("Aa", 1), #("BB", 2)]: two keys of equal hash
CollidingList == <<<<Str(<<65, 97>>), 1>>, <<Str(<<66, 66>>), 2>>>>

\* [#("a", 1), #("A", 2), #("B", 3)]: "a" and "A" share the fragment at shift
\* 0 and part at shift 5, "B" has a fragment of its own
NestedList == <<<<Str(<<97>>), 1>>, <<Str(<<65>>), 2>>, <<Str(<<66>>), 3>>>>

NoKey == Str(<<>>)

\* hamt.new(), the accumulator a fold starts from
NewHamt == empty(<<>>, <<>>).ds[1]

Init ==
    /\ heap = <<>>
    /\ referenceMap = NoReferences
    /\ referenceUid = 0
    /\ dicts = empty(<<>>, <<>>).ds
    /\ last = [op |-> "empty", dict |-> 0, key |-> NoKey, value |-> 0,
               list |-> <<>>, pos |-> 0, acc |-> NewHamt,
               ret |-> 1, res |-> <<>>, exc |-> "none"]

\* a fold is under way: it has items left, and no insert of it has thrown
Folding ==
    /\ last.op \in {"from_list", "create_hamt"}
    /\ last.exc = "none"
    /\ last.pos < Len(last.list)

Set(dict, key, value) ==
    /\ ~Folding
    /\ last.op # "get"
    /\ Len(dicts) < MaxDicts
    /\ \E r \in {set(heap, dicts, dict, key, value)} :
           /\ heap' = r.h
           /\ UNCHANGED references
           /\ dicts' = r.ds
           /\ last' = [op |-> "set", dict |-> dict, key |-> key, value |-> value,
                       list |-> <<>>, pos |-> 0, acc |-> NewHamt,
                       ret |-> r.ret, res |-> <<>>, exc |-> r.exc]

Remove(dict, key) ==
    /\ ~Folding
    /\ last.op # "get"
    /\ Len(dicts) < MaxDicts
    /\ \E r \in {remove(heap, dicts, dict, key)} :
           /\ heap' = r.h
           /\ UNCHANGED references
           /\ dicts' = r.ds
           /\ last' = [op |-> "remove", dict |-> dict, key |-> key, value |-> 0,
                       list |-> <<>>, pos |-> 0, acc |-> NewHamt,
                       ret |-> r.ret, res |-> <<>>, exc |-> r.exc]

Get(dict, key) ==
    /\ ~Folding
    /\ last.op # "get"
    /\ \E r \in {get(heap, dicts, dict, key)} :
           last' = [op |-> "get", dict |-> dict, key |-> key, value |-> 0,
                    list |-> <<>>, pos |-> 0, acc |-> NewHamt,
                    ret |-> 0, res |-> r,
                    exc |-> IF r[1] = "throw" THEN r[2] ELSE "none"]
    /\ UNCHANGED <<heap, dicts, references>>

\* the call of a helper that folds insert over list, from hamt.new(). With no
\* item to take, the fold returns hamt.new() at once.
StartFold(op, list) ==
    /\ ~Folding
    /\ heap' = heap
    /\ UNCHANGED references
    /\ dicts' = IF list = <<>> THEN Append(dicts, NewHamt) ELSE dicts
    /\ last' = [op |-> op, dict |-> 0, key |-> NoKey, value |-> 0,
                list |-> list, pos |-> 0, acc |-> NewHamt,
                ret |-> IF list = <<>> THEN Len(dicts) + 1 ELSE 0,
                res |-> <<>>, exc |-> "none"]

\* one call of the function of the fold: insert(hamt, key, value) on the
\* accumulator. The Dict it returns is the next accumulator; the one before
\* is garbage. The Dict the last call returns is what the helper returns,
\* and the program holds it from then on. An insert that throws ends the
\* fold, and the helper returns nothing.
FoldStep(key, value) ==
    \E r \in {set(heap, <<last.acc>>, 1, key, value)} :
        /\ heap' = r.h
        /\ UNCHANGED references
        /\ dicts' = IF r.exc = "none" /\ last.pos + 1 = Len(last.list)
                    THEN Append(dicts, r.ds[r.ret]) ELSE dicts
        /\ last' = IF r.exc # "none" THEN [last EXCEPT !.exc = r.exc]
                   ELSE [last EXCEPT !.pos = last.pos + 1,
                                     !.acc = r.ds[r.ret],
                                     !.ret = IF last.pos + 1 = Len(last.list)
                                             THEN Len(dicts) + 1 ELSE 0]

\* from_list of the tests: list is a list of #(key, value). A test builds
\* its map from a list first, and then works on it.
FromList(list) ==
    /\ Len(dicts) = 1
    /\ Len(dicts) < MaxDicts
    /\ StartFold("from_list", list)

\* let #(key, value) = item; hamt.insert(hamt, key, value)
FromListStep ==
    /\ Folding
    /\ last.op = "from_list"
    /\ FoldStep(last.list[last.pos + 1][1], last.list[last.pos + 1][2])

Next ==
    \/ \E dict \in 1..Len(dicts), key \in Keys, value \in Values : Set(dict, key, value)
    \/ \E dict \in 1..Len(dicts), key \in Keys : Remove(dict, key)
    \/ \E dict \in 1..Len(dicts), key \in Keys : Get(dict, key)
    \/ \E n \in ListSizes : FromList(LetterList(n))
    \/ FromList(CollidingList)
    \/ FromList(NestedList)
    \/ FromListStep

Spec == Init /\ [][Next]_vars

---------------------------------------------------------------------------
(* The benchmark's program: maps built by create_hamt from lists of         *)
(* distinct integers                                                        *)

\* the 33 integers start, start + step, ...
Progression(start, step) == [i \in 1..33 |-> start + (i - 1) * step]

IntStarts == {-16, 1, 1024, 65536}
IntSteps == {1, 2, 32}

\* 16388 and 1073742708 are distinct integers of equal hash
IntLists ==
    {Progression(start, step) : start \in IntStarts, step \in IntSteps}
    \cup {Range(1, 31) \o <<16388, 1073742708>>}

\* create_hamt of the benchmark: list is a list of integers
CreateHamt(list) ==
    /\ Len(dicts) < MaxDicts
    /\ StartFold("create_hamt", list)

\* hamt.insert(dict, item, item): each item is inserted as key and as value
CreateHamtStep ==
    /\ Folding
    /\ last.op = "create_hamt"
    /\ FoldStep(Num(last.list[last.pos + 1]), last.list[last.pos + 1])

NextInts ==
    \/ \E list \in IntLists : CreateHamt(list)
    \/ CreateHamtStep

SpecInts == Init /\ [][NextInts]_vars

---------------------------------------------------------------------------
(* Keys with a hashCode method, and the merge of two leaves step by step:   *)
(* hashObject returns the number hashCode returns, as it is, so the hash of *)
(* such a key is any JavaScript number. A number is                         *)
(*   [nan |-> FALSE, high |-> q, low |-> w, half |-> b],                    *)
(* which stands for q * 2^32 + w + b / 2 (w a 32-bit signed integer, b 0 or *)
(* 1), or NaN. Each call of mergeLeavesLoop is one step, so that a          *)
(* recursion with no end is a behaviour with no end.                        *)

JsNumber(high, low, half) == [nan |-> FALSE, high |-> high, low |-> low, half |-> half]

NaN == [nan |-> TRUE, high |-> 0, low |-> 0, half |-> 0]

\* a === b on numbers: NaN equals nothing, itself included
strictEquals(a, b) == ~a.nan /\ ~b.nan /\ a = b

\* the conversion the bit operators apply to a number: NaN gives 0, the
\* fraction is cut towards zero, and the integer is taken modulo 2^32
ToInt32(number) ==
    IF number.nan THEN 0
    ELSE IF number.half = 1
            /\ (number.high < 0 \/ (number.high = 0 /\ number.low < 0))
    THEN Add32(number.low, 1)
    ELSE number.low

\* (hash >>> shift) & MASK on a number
hashFragmentOfNumber(shift, hash) == hashFragment(shift, ToInt32(hash))

\* an object whose prototype has a hashCode method, which returns code
ObjectKey(id, code) == [t |-> "object", id |-> id, code |-> code]

\* const code = object.hashCode(object); if (typeof code === "number") return code
hashObject(object) == object.code

\* the nested calls of mergeLeavesLoop the model follows
MaxLevels == 9

\* the numbers hashCode returns: 0, 1, 32, 2^30, -2^31, 2^32, 0.5 and NaN.
\* The first five are 32-bit integers, which differ from 0 at the shifts 0,
\* 5, 30 and 30.
HashCodes ==
    {JsNumber(0, 0, 0), JsNumber(0, 1, 0), JsNumber(0, 32, 0),
     JsNumber(0, 1073741824, 0), JsNumber(0, MinInt32, 0),
     JsNumber(1, 0, 0), JsNumber(0, 0, 1), NaN}

\* set(dict, B, 2) on the map dict that holds the key A alone, at the point
\* where alterLeafNode has found the keys unequal, has made the new leaf and
\* calls mergeLeaves(0, node.hash, node, keyHash, leaf)
InitMerge ==
    \E codeA \in HashCodes, codeB \in HashCodes :
        /\ heap = leafNode(leafNode(<<>>, hashObject(ObjectKey(1, codeA)),
                                    ObjectKey(1, codeA), 1).h,
                           hashObject(ObjectKey(2, codeB)), ObjectKey(2, codeB), 2).h
        /\ dicts = <<[root |-> 1, size |-> 1]>>
        /\ referenceMap = NoReferences
        /\ referenceUid = 0
        /\ last = [op |-> "set", pc |-> "mergeLeaves", shift |-> 0,
                   hash |-> hashObject(ObjectKey(1, codeA)), node |-> 1,
                   otherHash |-> hashObject(ObjectKey(2, codeB)), other |-> 2,
                   level |-> 0, pending |-> <<>>, child |-> EMPTY_NODE,
                   ret |-> 0, exc |-> "none"]

\* the node goes back through alterLeafNode and alter to set, which returns
\* { root: new_root, size: new_size }
MergeReturned(made) ==
    /\ heap' = made.h
    /\ UNCHANGED references
    /\ dicts' = NewDict(made.h, dicts, made.r, dicts[1].size + 1).ds
    /\ last' = [last EXCEPT !.pc = "returned", !.level = 0, !.child = made.r,
                            !.pending = <<>>, !.ret = Len(dicts) + 1]

\* mergeLeaves: two leaves of the same hash make a collision node, and the
\* others go to mergeLeavesLoop
MergeLeaves ==
    /\ last.op = "set"
    /\ last.pc = "mergeLeaves"
    /\ IF strictEquals(last.hash, last.otherHash)
       THEN MergeReturned(collisionNodeOf(heap, last.hash,
                <<PairObject(heap[last.other].key, heap[last.other].value),
                  PairObject(heap[last.node].key, heap[last.node].value)>>))
       ELSE /\ last' = [last EXCEPT !.pc = "mergeLeavesLoop", !.level = 1]
            /\ UNCHANGED <<heap, dicts, references>>

\* mergeLeavesLoop with fragment == otherFragment: the call of
\* mergeLeavesLoop(shift + FRAGMENT_SIZE, ...); the bitmap waits for the child
MergeLeavesLoopRecurse ==
    /\ last.op = "set"
    /\ last.pc = "mergeLeavesLoop"
    /\ last.level < MaxLevels
    /\ hashFragmentOfNumber(last.shift, last.hash)
           = hashFragmentOfNumber(last.shift, last.otherHash)
    /\ last' = [last EXCEPT
                   !.shift = last.shift + FRAGMENT_SIZE,
                   !.level = last.level + 1,
                   !.pending = Append(last.pending,
                       Or(toMask(hashFragmentOfNumber(last.shift, last.hash)),
                          toMask(hashFragmentOfNumber(last.shift, last.otherHash))))]
    /\ UNCHANGED <<heap, dicts, references>>

\* what a call of mergeLeavesLoop returns goes to the call that made it, or,
\* from the first call, back to set
MergeLoopReturns(made) ==
    IF last.pending = <<>>
    THEN MergeReturned(made)
    ELSE /\ heap' = made.h
         /\ UNCHANGED references
         /\ dicts' = dicts
         /\ last' = [last EXCEPT !.pc = "return", !.child = made.r,
                                 !.level = last.level - 1,
                                 !.shift = last.shift - FRAGMENT_SIZE]

\* mergeLeavesLoop with two fragments that differ: a packed node of the two
\* nodes, the one of the smaller fragment first
MergeLeavesLoopLeaves ==
    /\ last.op = "set"
    /\ last.pc = "mergeLeavesLoop"
    /\ hashFragmentOfNumber(last.shift, last.hash)
           # hashFragmentOfNumber(last.shift, last.otherHash)
    /\ MergeLoopReturns(packedNodeOf(heap,
           Or(toMask(hashFragmentOfNumber(last.shift, last.hash)),
              toMask(hashFragmentOfNumber(last.shift, last.otherHash))),
           IF hashFragmentOfNumber(last.shift, last.hash)
                  < hashFragmentOfNumber(last.shift, last.otherHash)
           THEN <<last.node, last.other>>
           ELSE <<last.other, last.node>>))

\* return packedNode(bitmap, [child]) of a call whose fragments were equal
MergeLeavesLoopChild ==
    /\ last.op = "set"
    /\ last.pc = "return"
    /\ \E made \in {packedNodeOf(heap, last.pending[Len(last.pending)], <<last.child>>)} :
           /\ heap' = made.h
           /\ UNCHANGED references
           /\ IF Len(last.pending) = 1
              THEN /\ dicts' = NewDict(made.h, dicts, made.r, dicts[1].size + 1).ds
                   /\ last' = [last EXCEPT !.pc = "returned", !.level = 0,
                                           !.child = made.r, !.pending = <<>>,
                                           !.ret = Len(dicts) + 1]
              ELSE /\ dicts' = dicts
                   /\ last' = [last EXCEPT
                                  !.child = made.r,
                                  !.level = last.level - 1,
                                  !.shift = last.shift - FRAGMENT_SIZE,
                                  !.pending = SubSeq(last.pending, 1,
                                                     Len(last.pending) - 1)]

NextMerge ==
    \/ MergeLeaves
    \/ MergeLeavesLoopRecurse
    \/ MergeLeavesLoopLeaves
    \/ MergeLeavesLoopChild

SpecMerge == InitMerge /\ [][NextMerge]_vars

---------------------------------------------------------------------------
(* Hashing by reference: a program that calls hashByReference on opaque     *)
(* values (symbols, functions, promises, weak sets and weak maps), told     *)
(* apart by their reference alone. referenceMap is a WeakMap: it loses the  *)
(* entry of a value the program no longer holds, and such a value is never  *)
(* hashed again. So the program may start with any counter and a table of   *)
(* the values it still holds.                                               *)

\* the result of hashByReference: the table, the counter and the hash
HashedAs(map, uid, hash) == [map |-> map, uid |-> uid, ret |-> hash]

\* hashByReference that never looks the object up
hashByReferenceAnew(map, uid, object) ==
    HashedAs([map EXCEPT ![object] = uid],
             IF uid + 1 = 2147483647 THEN 0 ELSE uid + 1, uid)

hashByReference(map, uid, object) ==
    IF map[object] # UNDEFINED
    THEN HashedAs(map, uid, map[object])
    ELSE HashedAs([map EXCEPT ![object] = uid],
                  IF uid + 1 = 2147483647 THEN 0 ELSE uid + 1, uid)

\* the counter at the start: 0, and 3 below 0x7fffffff
UidStarts == {0, 2147483644}

InitReferences ==
    /\ heap = <<>>
    /\ dicts = <<>>
    /\ referenceMap = NoReferences
    /\ referenceUid \in UidStarts
    /\ last = [op |-> "start", object |-> 0, ret |-> UNDEFINED]

HashByReference(object) ==
    \E r \in {hashByReference(referenceMap, referenceUid, object)} :
        /\ referenceMap' = r.map
        /\ referenceUid' = r.uid
        /\ last' = [op |-> "hashByReference", object |-> object, ret |-> r.ret]
        /\ UNCHANGED <<heap, dicts>>

NextReferences == \E object \in Refs : HashByReference(object)

SpecReferences == InitReferences /\ [][NextReferences]_vars

---------------------------------------------------------------------------
(* What a map holds, read off its nodes *)

\* the nodes of the tree below node (and node itself), as to_string visits
\* them
RECURSIVE nodesOf(_, _)
nodesOf(h, node) ==
    IF node = EMPTY_NODE \/ node = UNDEFINED THEN {}
    ELSE IF h[node].type = ARRAY \/ h[node].type = PACKED
    THEN {node} \cup UNION {nodesOf(h, h[h[node].children].elems[i]) :
                               i \in 1..Len(h[h[node].children].elems)}
    ELSE {node}

\* the keys of the leaves and of the collision pairs below node
keysOf(h, node) ==
    UNION {IF h[n].type = UNDEFINED THEN {h[n].key}
           ELSE IF h[n].type = COLLISION
           THEN {h[h[n].pairs].elems[i].key : i \in 1..Len(h[h[n].pairs].elems)}
           ELSE {} : n \in nodesOf(h, node)}

\* every key the program uses
AllKeys == Keys \cup {LetterList(17)[i][1] : i \in 1..17}

---------------------------------------------------------------------------
(* The claims *)

\* C1: after insert(m, k, v) the insert has returned a map, and get of k on
\* that map returns Ok(v); this covers a k already in m and a k whose hash
\* is the hash of another key of m.
C1_InsertThenGet ==
    last.op = "set" =>
        (/\ last.exc = "none"
         /\ get(heap, dicts, last.ret, last.key) = <<"Ok", last.value>>)

\* C2: no operation raises: every insert and remove returns a map, and every
\* get returns Ok(value) or NotFound, also when keys share their hash.
C2_NoOperationFails ==
    /\ last.exc = "none"
    /\ last.op = "get" => last.res[1] \in {"Ok", "Error"}

\* C3: the size of every map is the number of keys get returns Ok for; an
\* insert adds 1 to the size when the key is absent and 0 when it is present,
\* a remove subtracts 1 when the key is present and 0 when it is absent, and
\* the size of empty() is 0.
C3_SizeTracksEntries ==
    /\ size(dicts, 1) = 0
    /\ \A d \in 1..Len(dicts) :
           size(dicts, d)
               = Cardinality({k \in AllKeys : get(heap, dicts, d, k)[1] = "Ok"})
    /\ last.op = "set" =>
           (/\ last.exc = "none"
            /\ size(dicts, last.ret)
                   = size(dicts, last.dict)
                     + (IF last.key \in keysOf(heap, dicts[last.dict].root)
                        THEN 0 ELSE 1))
    /\ last.op = "remove" =>
           (/\ last.exc = "none"
            /\ size(dicts, last.ret)
                   = size(dicts, last.dict)
                     - (IF last.key \in keysOf(heap, dicts[last.dict].root)
                        THEN 1 ELSE 0))

\* C4: for every map m, key k and value v, remove(m, k) and then insert of
\* k and v return maps, get of k on the last one returns Ok(v), and its size
\* is the size of m when k was in m.
C4_RemoveThenInsert ==
    \A d \in 1..Len(dicts), k \in Keys, v \in Values :
        Let(remove(heap, dicts, d, k), LAMBDA r :
            /\ r.exc = "none"
            /\ Let(set(r.h, r.ds, r.ret, k, v), LAMBDA s :
                   /\ s.exc = "none"
                   /\ get(s.h, s.ds, s.ret, k) = <<"Ok", v>>
                   /\ k \in keysOf(heap, dicts[d].root)
                          => size(s.ds, s.ret) = size(dicts, d)))

\* C5: after insert(m, k1, v) the insert has returned a map, and for every
\* key k2 other than k1, get of k2 on that map returns what get of k2 on m
\* returns.
C5_Independence ==
    last.op = "set" =>
        (/\ last.exc = "none"
         /\ \A k2 \in AllKeys \ {last.key} :
                get(heap, dicts, last.ret, k2) = get(heap, dicts, last.dict, k2))

\* C6: a step of the program that changes the heap or the maps changes
\* nothing that exists: every object of the heap (a node with its fields, a
\* children array, a pairs array) and every Map record is after the step
\* what it was before it, and so are the size of every map and what get
\* returns on it for every key.
C6_Persistence ==
    [][\/ heap' = heap /\ dicts' = dicts
       \/ /\ Len(heap') >= Len(heap)
          /\ \A a \in 1..Len(heap) : heap'[a] = heap[a]
          /\ Len(dicts') >= Len(dicts)
          /\ \A d \in 1..Len(dicts) :
                 /\ dicts'[d] = dicts[d]
                 /\ size(dicts', d) = size(dicts, d)
                 /\ \A k0 \in AllKeys :
                        get(heap', dicts', d, k0) = get(heap, dicts, d, k0)]_vars

\* an insert or a remove has returned a map whose root is not the root of
\* the non-empty map it was applied to, and that map is still held
C6_Witness ==
    /\ last.op \in {"set", "remove"}
    /\ last.exc = "none"
    /\ dicts[last.dict].root # EMPTY_NODE
    /\ dicts[last.ret].root # dicts[last.dict].root
    /\ nodesOf(heap, dicts[last.ret].root) \cap nodesOf(heap, dicts[last.dict].root) # {}

\* C7, as the code has it: remove(m, k) with k absent from m never returns
\* the object m. Either it returns a new Map record, whose root is the
\* identical root node of m and whose size is the size of m, or it raises,
\* which it does only when m holds a Collision node of the hash of k.
C7_RemoveAbsentNewRecord ==
    (last.op = "remove" /\ last.key \notin keysOf(heap, dicts[last.dict].root)) =>
        IF last.exc = "none"
        THEN /\ last.ret # last.dict
             /\ last.ret = Len(dicts)
             /\ dicts[last.ret].root = dicts[last.dict].root
             /\ size(dicts, last.ret) = size(dicts, last.dict)
        ELSE \E n \in nodesOf(heap, dicts[last.dict].root) :
                 /\ heap[n].type = COLLISION
                 /\ heap[n].hash = getHash(last.key)

\* a remove of a key that is absent from a non-empty map has returned
C7_Witness ==
    /\ last.op = "remove"
    /\ last.exc = "none"
    /\ dicts[last.dict].root # EMPTY_NODE
    /\ last.key \notin keysOf(heap, dicts[last.dict].root)

\* C7, as the spec has it: remove(m, k) with k absent from m returns the
\* identical object m.
C7_RemoveAbsentIdentical ==
    (last.op = "remove" /\ last.key \notin keysOf(heap, dicts[last.dict].root)) =>
        last.ret = last.dict

\* C8: a map built by inserting 33 distinct integers into empty() has an
\* Array node as its root, and get returns Ok for each of the 33 keys.
C8_ThirtyThreeIntegers ==
    (last.op = "create_hamt" /\ ~Folding) =>
        (/\ last.exc = "none"
         /\ dicts[last.ret].root # EMPTY_NODE
         /\ heap[dicts[last.ret].root].type = ARRAY
         /\ \A i \in 1..Len(last.list) :
                get(heap, dicts, last.ret, Num(last.list[i]))
                    = <<"Ok", last.list[i]>>)

\* C9: after remove(m, k) the remove has returned a map, get of k on that map
\* returns NotFound, and for every key k2 other than k, get of k2 on that
\* map returns what get of k2 on m returns.
C9_RemoveExactlyOne ==
    last.op = "remove" =>
        (/\ last.exc = "none"
         /\ get(heap, dicts, last.ret, last.key) = <<"Error">>
         /\ \A k2 \in AllKeys \ {last.key} :
                get(heap, dicts, last.ret, k2) = get(heap, dicts, last.dict, k2))

\* C10: in every map, the size field of each Array node is the number of
\* non-empty slots of its children array, and a map with no key left has
\* the root Empty.
C10_ArraySize ==
    \A d \in 1..Len(dicts) :
        /\ \A n \in nodesOf(heap, dicts[d].root) :
               heap[n].type = ARRAY =>
                   heap[n].size
                       = Cardinality({i \in 1..Len(heap[heap[n].children].elems) :
                                         heap[heap[n].children].elems[i] # UNDEFINED})
        /\ keysOf(heap, dicts[d].root) = {} => dicts[d].root = EMPTY_NODE

\* the fragment, at the depth of shift, of the hash of key
keyFragment(shift, key) == hashFragment(shift, getHash(key))

\* the fragment rule for child, the child of fragment f of a node at the
\* depth of shift: every key stored below child has fragment f at that depth
fragmentRule(h, child, shift, f) ==
    \A key \in keysOf(h, child) : keyFragment(shift, key) = f

\* the invariant of the Packed and Array nodes below node (and of node),
\* where node is at the depth of shift
\* the positions of the bits set in a bitmap, bit 31 being the sign
bitsOf(bitmap) ==
    {f \in 0..(BUCKET_SIZE - 1) :
        IF f = 31 THEN bitmap < 0 ELSE Bit(Low31(bitmap), f) = 1}

\* the packed node of children elems has one child for each bit of bits, in
\* the order of the bits, and the child of bit f holds keys of fragment f
RECURSIVE packedRule(_, _, _)
packedChildren(h, elems, bits, shift) ==
    /\ Cardinality(bits) = Len(elems)
    /\ Len(elems) \in 1..MAX_CHILDREN_IN_PACKED_NODE
    /\ \A f \in bits :
           /\ fragmentRule(h, elems[Cardinality({g \in bits : g < f}) + 1], shift, f)
           /\ packedRule(h, elems[Cardinality({g \in bits : g < f}) + 1],
                         shift + FRAGMENT_SIZE)

packedRule(h, node, shift) ==
    IF node = EMPTY_NODE \/ node = UNDEFINED THEN TRUE
    ELSE CASE h[node].type = PACKED ->
                  packedChildren(h, h[h[node].children].elems,
                                 bitsOf(h[node].bitmap), shift)
           [] h[node].type = ARRAY ->
                  /\ Len(h[h[node].children].elems) = BUCKET_SIZE
                  /\ \A f \in 0..(BUCKET_SIZE - 1) :
                         /\ fragmentRule(h, h[h[node].children].elems[f + 1], shift, f)
                         /\ packedRule(h, h[h[node].children].elems[f + 1],
                                       shift + FRAGMENT_SIZE)
           [] OTHER -> TRUE

\* C11: in every map, each Packed node has as many children as its bitmap has
\* bits set, between 1 and 16 of them; the child of a fragment f whose bit is
\* set sits at index popCount(bitmap & ((1 << f) - 1)), and every key stored
\* below it has fragment f at the depth of the node. Every key stored below
\* slot f of an Array node has fragment f at the depth of the node. The maps
\* are those the program holds and the one a fold has come to.
C11_PackedInvariant ==
    \A root \in {dicts[d].root : d \in 1..Len(dicts)} \cup {last.acc.root} :
        packedRule(heap, root, 0)

\* a map whose root is an Array node, one of whose slots holds a Packed node
\* of 2 children
C11_Witness ==
    \E d \in 1..Len(dicts) :
        /\ dicts[d].root # EMPTY_NODE
        /\ heap[dicts[d].root].type = ARRAY
        /\ \E n \in nodesOf(heap, dicts[d].root) :
               /\ heap[n].type = PACKED
               /\ Len(heap[heap[n].children].elems) = 2


\* the packed nodes below the root of a map that have one child, and that
\* child a leaf or a collision node
redundantNodes(h, root) ==
    {n \in nodesOf(h, root) \ {root} :
        /\ h[n].type = PACKED
        /\ Len(h[h[n].children].elems) = 1
        /\ h[h[h[n].children].elems[1]].type \in {UNDEFINED, COLLISION}}

\* C12: in every map, no packed node other than the root is left with a
\* single child that is a leaf or a collision node: such a node is replaced
\* by its child (a packed node of one child which is itself an interior node
\* is what a merge makes, and is allowed).
C12_NoRedundantInterior ==
    \A d \in 1..Len(dicts) : redundantNodes(heap, dicts[d].root) = {}


\* the pairs of a collision node
pairsOf(h, n) == h[h[n].pairs].elems

\* the collision nodes of a map one of whose pairs has the key
collisionsWith(h, root, key) ==
    {n \in nodesOf(h, root) :
        /\ h[n].type = COLLISION
        /\ \E i \in 1..Len(pairsOf(h, n)) : isEqual(pairsOf(h, n)[i].key, key)}

\* C13: in every map each collision node holds at least 2 pairs, of keys
\* that are pairwise unequal and all hash to the hash of the node; an insert
\* of a key that is in a collision node returns a map where that node has the
\* same number of pairs and the key has the new value; a remove of a key from
\* a collision node of 2 pairs returns a map with a leaf holding the other
\* key and its value in its place, and a remove from a longer collision node
\* returns a map with a collision node holding the other pairs.
C13_CollisionExclusivity ==
    /\ \A d \in 1..Len(dicts) : \A n \in nodesOf(heap, dicts[d].root) :
           heap[n].type = COLLISION =>
               /\ Len(pairsOf(heap, n)) >= 2
               /\ \A i, j \in 1..Len(pairsOf(heap, n)) :
                      i # j => ~isEqual(pairsOf(heap, n)[i].key, pairsOf(heap, n)[j].key)
               /\ \A i \in 1..Len(pairsOf(heap, n)) :
                      getHash(pairsOf(heap, n)[i].key) = heap[n].hash
    /\ last.op = "set" =>
           \A n \in collisionsWith(heap, dicts[last.dict].root, last.key) :
               /\ last.exc = "none"
               /\ \E n2 \in collisionsWith(heap, dicts[last.ret].root, last.key) :
                      /\ heap[n2].hash = heap[n].hash
                      /\ Len(pairsOf(heap, n2)) = Len(pairsOf(heap, n))
                      /\ \A i \in 1..Len(pairsOf(heap, n)) :
                             /\ pairsOf(heap, n2)[i].key = pairsOf(heap, n)[i].key
                             /\ pairsOf(heap, n2)[i].value
                                    = IF isEqual(pairsOf(heap, n)[i].key, last.key)
                                      THEN last.value
                                      ELSE pairsOf(heap, n)[i].value
    /\ last.op = "remove" =>
           \A n \in collisionsWith(heap, dicts[last.dict].root, last.key) :
               /\ last.exc = "none"
               /\ collisionsWith(heap, dicts[last.ret].root, last.key) = {}
               /\ \A i \in 1..Len(pairsOf(heap, n)) :
                      ~isEqual(pairsOf(heap, n)[i].key, last.key) =>
                          \E n2 \in nodesOf(heap, dicts[last.ret].root) :
                              IF Len(pairsOf(heap, n)) = 2
                              THEN /\ heap[n2].type = UNDEFINED
                                   /\ heap[n2].hash = heap[n].hash
                                   /\ heap[n2].key = pairsOf(heap, n)[i].key
                                   /\ heap[n2].value = pairsOf(heap, n)[i].value
                              ELSE /\ heap[n2].type = COLLISION
                                   /\ Len(pairsOf(heap, n2)) = Len(pairsOf(heap, n)) - 1
                                   /\ \E j \in 1..Len(pairsOf(heap, n2)) :
                                          /\ pairsOf(heap, n2)[j].key = pairsOf(heap, n)[i].key
                                          /\ pairsOf(heap, n2)[j].value = pairsOf(heap, n)[i].value


\* the nodes alter meets on the way of a hash, from node at shift: it follows
\* the child of the fragment through packed and array nodes and ends at an
\* absent child, a leaf or a collision node
RECURSIVE pathOf(_, _, _, _)
pathOf(h, node, shift, keyHash) ==
    IF node = EMPTY_NODE \/ node = UNDEFINED THEN <<>>
    ELSE CASE h[node].type = PACKED ->
                  IF And(h[node].bitmap, toMask(hashFragment(shift, keyHash))) = 0
                  THEN <<node>>
                  ELSE <<node>> \o pathOf(h,
                           h[h[node].children].elems[
                               popCount(And(h[node].bitmap,
                                   Sub32(toMask(hashFragment(shift, keyHash)), 1))) + 1],
                           shift + FRAGMENT_SIZE, keyHash)
           [] h[node].type = ARRAY ->
                  <<node>> \o pathOf(h,
                      h[h[node].children].elems[hashFragment(shift, keyHash) + 1],
                      shift + FRAGMENT_SIZE, keyHash)
           [] OTHER -> <<node>>

\* node is a leaf of the key and the value
isLeafOf(h, node, keyHash, key, value) ==
    /\ node # UNDEFINED
    /\ node # EMPTY_NODE
    /\ h[node].type = UNDEFINED
    /\ h[node].hash = keyHash
    /\ h[node].key = key
    /\ h[node].value = value

\* newNode is what the insert of a key of fragment f makes of the packed
\* node, which has no child for f
promotionAt(h, node, newNode, f, keyHash, key, value) ==
    IF Len(h[h[node].children].elems) >= MAX_CHILDREN_IN_PACKED_NODE
    THEN /\ h[newNode].type = ARRAY
         /\ h[newNode].size = MAX_CHILDREN_IN_PACKED_NODE + 1
         /\ Len(h[h[newNode].children].elems) = BUCKET_SIZE
         /\ isLeafOf(h, h[h[newNode].children].elems[f + 1], keyHash, key, value)
         /\ \A i \in 0..(BUCKET_SIZE - 1) :
                i # f =>
                    h[h[newNode].children].elems[i + 1]
                        = IF And(h[node].bitmap, toMask(i)) # 0
                          THEN h[h[node].children].elems[
                                   popCount(And(h[node].bitmap, Sub32(toMask(i), 1))) + 1]
                          ELSE UNDEFINED
    ELSE /\ h[newNode].type = PACKED
         /\ h[newNode].bitmap = Or(h[node].bitmap, toMask(f))
         /\ Len(h[h[newNode].children].elems) = Len(h[h[node].children].elems) + 1
         /\ isLeafOf(h,
                h[h[newNode].children].elems[
                    popCount(And(h[node].bitmap, Sub32(toMask(f), 1))) + 1],
                keyHash, key, value)
         /\ \A j \in 1..Len(h[h[node].children].elems) :
                h[h[node].children].elems[j]
                    = h[h[newNode].children].elems[
                          IF j <= popCount(And(h[node].bitmap, Sub32(toMask(f), 1)))
                          THEN j ELSE j + 1]

\* the rule of the promotion for the insert that made the map of root new
\* out of the map of root old: p and q are the paths of the key in the two
promotionOnPath(h, p, q, keyHash, key, value) ==
    (/\ Len(p) > 0
     /\ h[p[Len(p)]].type = PACKED) =>
        /\ Len(q) >= Len(p)
        /\ promotionAt(h, p[Len(p)], q[Len(p)],
                       hashFragment(FRAGMENT_SIZE * (Len(p) - 1), keyHash),
                       keyHash, key, value)

promotionRule(h, old, new, key, value) ==
    promotionOnPath(h, pathOf(h, old, 0, getHash(key)),
                    pathOf(h, new, 0, getHash(key)), getHash(key), key, value)

\* C14: an insert of a key whose fragment is absent from a packed node of 16
\* children puts in its place an array node of 32 slots and size 17, with
\* the new leaf at the slot of its fragment, each former child at the slot
\* of its bit (the children taken in ascending bit order) and every other
\* slot empty; with fewer than 16 children the node stays packed, with the
\* bit set and the new leaf at index popCount(bitmap & (mask - 1)). This
\* holds for every insert: those of the program and those of the folds.
C14_Promotion ==
    [][/\ (last'.op = "set" /\ last'.exc = "none") =>
              promotionRule(heap', dicts[last'.dict].root, dicts'[last'.ret].root,
                            last'.key, last'.value)
       /\ (Folding /\ last.op = "from_list" /\ last'.exc = "none") =>
              promotionRule(heap', last.acc.root, last'.acc.root,
                            last.list[last.pos + 1][1], last.list[last.pos + 1][2])
       /\ (Folding /\ last.op = "create_hamt" /\ last'.exc = "none") =>
              promotionRule(heap', last.acc.root, last'.acc.root,
                            Num(last.list[last.pos + 1]), last.list[last.pos + 1])]_vars

\* an insert into a map whose root was a packed node of 16 children has
\* returned a map whose root is an array node
C14_Witness ==
    /\ last.op = "set"
    /\ last.exc = "none"
    /\ dicts[last.dict].root # EMPTY_NODE
    /\ heap[dicts[last.dict].root].type = PACKED
    /\ Len(heap[heap[dicts[last.dict].root].children].elems) = MAX_CHILDREN_IN_PACKED_NODE
    /\ heap[dicts[last.ret].root].type = ARRAY


\* the nodes of the map of root old that are not on the path of the key
offPath(h, old, key) ==
    nodesOf(h, old) \ {pathOf(h, old, 0, getHash(key))[i] :
                           i \in 1..Len(pathOf(h, old, 0, getHash(key)))}

\* C15: a remove of a key that is absent from the map returns a map whose
\* root is the very root of the map it was given, whatever nodes are on the
\* path of the key (packed, array, leaf or collision); and every insert or
\* remove that returns a map keeps, as the same objects, all the nodes of the
\* old map that are not on the path of the key.
C15_StructuralSharing ==
    /\ (/\ last.op = "remove"
        /\ last.key \notin keysOf(heap, dicts[last.dict].root)) =>
           /\ last.exc = "none"
           /\ dicts[last.ret].root = dicts[last.dict].root
    /\ (last.op \in {"set", "remove"} /\ last.exc = "none") =>
           offPath(heap, dicts[last.dict].root, last.key)
               \subseteq nodesOf(heap, dicts[last.ret].root)


\* the number of interior nodes on the longest way from node down to a leaf
\* or a collision node
RECURSIVE interiorEdges(_, _)
interiorEdges(h, node) ==
    IF node = EMPTY_NODE \/ node = UNDEFINED THEN 0
    ELSE IF h[node].type = PACKED \/ h[node].type = ARRAY
    THEN 1 + CHOOSE m \in 0..(Len(h) + 1) :
                 /\ \A i \in 1..Len(h[h[node].children].elems) :
                        interiorEdges(h, h[h[node].children].elems[i]) <= m
                 /\ \E i \in 1..Len(h[h[node].children].elems) :
                        interiorEdges(h, h[h[node].children].elems[i]) = m
    ELSE 0

\* C16: whatever two unequal numbers the hash function returns for two keys
\* (a number a hashCode method returns included), the merge of their leaves
\* nests at most 7 calls of mergeLeavesLoop, and no map has more than 7
\* interior nodes on a way from its root to a leaf or a collision node.
C16_MergeDepth ==
    /\ last.level <= 7
    /\ \A d \in 1..Len(dicts) : interiorEdges(heap, dicts[d].root) <= 7


\* C17: a call of hashByReference for a reference that is not in the table
\* returns the counter and stores it for the reference, and the counter
\* goes up by one, back to 0 when it reaches 0x7fffffff; a call for a
\* reference that is in the table returns the number stored, and leaves the
\* counter and the table as they are; no call changes the number of another
\* reference.
C17_HashByReference ==
    [][last'.op = "hashByReference" =>
           /\ IF referenceMap[last'.object] = UNDEFINED
              THEN /\ last'.ret = referenceUid
                   /\ referenceMap'[last'.object] = referenceUid
                   /\ referenceUid' = IF referenceUid = 2147483646 THEN 0
                                      ELSE referenceUid + 1
              ELSE /\ last'.ret = referenceMap[last'.object]
                   /\ referenceMap'[last'.object] = referenceMap[last'.object]
                   /\ referenceUid' = referenceUid
           /\ \A o \in Refs \ {last'.object} : referenceMap'[o] = referenceMap[o]]_vars

\* the counter has wrapped: a reference has the last number below
\* 0x7fffffff, the next new reference has 0, and a call for a reference
\* hashed before has just returned its number again
C17_Witness ==
    /\ last.op = "hashByReference"
    /\ referenceUid = 1
    /\ \E o \in Refs : referenceMap[o] = 2147483646
    /\ \E o \in Refs : referenceMap[o] = 0
    /\ last.ret = 2147483645

=============================================================================
